---- MODULE Spec2Model ----
(***************************************************************************)
(* Model of app_fire2.py: a Streamlit page that memoizes the responses of  *)
(* a generative model in a Firebase key-value store, keyed by the SHA-256  *)
(* digest of the uploaded image.  Every browser session runs the script in *)
(* its own thread; the three network calls of the submit handler (store    *)
(* read, generation, store write) are the points where sessions interleave.*)
(***************************************************************************)
EXTENDS Integers, Sequences, FiniteSets, TLC

\* ---------------------------------------------------------------- bounds
MaxSubmissions == 3

\* Browser sessions, each running the script in its own thread.
Sessions == {"s1", "s2"}

\* ------------------------------------------------------- Python values
\* Values are tagged records so that None, strings and dicts are comparable.
PyNone == [tag |-> "None"]
Str(s) == [tag |-> "str", val |-> s]

\* Variant: a record read from the store counts as false.
TruthyDictFalse(v) ==
    CASE v.tag = "None" -> FALSE
      [] v.tag = "str"  -> v.val # ""
      [] v.tag = "dict" -> FALSE
      [] OTHER          -> TRUE

\* Python truthiness as used by `if x:` / `if not x:` in the script.
Truthy(v) ==
    CASE v.tag = "None" -> FALSE
      [] v.tag = "str"  -> v.val # ""
      [] v.tag = "dict" -> TRUE      \* Firebase never returns an empty dict
      [] v.tag = "file" -> TRUE      \* UploadedFile defines no __bool__/__len__
      [] v.tag = "hex"  -> TRUE      \* a hexdigest is 64 characters long
      [] v.tag = "list" -> TRUE      \* image_parts always has one element
      [] OTHER          -> TRUE

\* ------------------------------------------------------------- inputs
Prompts == {Str(""), Str("p1"), Str("p2")}

\* Uploaded files: the first two have byte-identical content under different
\* names and MIME labels, the third differs from them in one byte.
File(n, t, d) == [tag |-> "file", name |-> n, type |-> t, data |-> d]
UploadedFiles ==
    { File("a.png", "image/png", <<1, 2>>),
      File("b.jpg", "image/jpeg", <<1, 2>>),
      File("c.png", "image/png", <<1, 3>>) }
FileInputs == UploadedFiles \cup {PyNone}

\* Texts the generative model may return (response.text).
Texts == {"", "r1", "r2"}

\* hashlib.sha256(bytes).hexdigest(): a digest of the content bytes only.
\* Abstracted to a positional fold that is collision-free on the modelled
\* byte strings; the result stands for the (always non-empty) hex string.
RECURSIVE Fold(_, _)
Fold(bytes, acc) ==
    IF bytes = <<>> THEN acc
    ELSE Fold(Tail(bytes), (acc * 257 + Head(bytes) + 1) % 65536)
Sha256Hex(bytes) == [tag |-> "hex", val |-> Fold(bytes, 7)]

Ids == { Sha256Hex(f.data) : f \in UploadedFiles }

\* ------------------------------------------------------- store values
Entry(r, e) == [tag |-> "dict", response |-> r, encoding |-> e]
\* What may sit at /responses/<k> before this program runs: nothing, a
\* well-formed entry (possibly with an empty response), a record without a
\* "response" child, or a non-record value (a plain string).
ForeignValues(k) ==
    { PyNone,
      Entry(Str("r0"), k),
      Entry(Str(""), k),
      [tag |-> "dict", encoding |-> k],
      Str("junk") }

\* The store starts empty except for the key of one image, which may hold
\* any of the foreign values.
SeededId == Sha256Hex(<<1, 2>>)

VARIABLES
    store,              \* /responses/<k> in the remote database
    pc,                 \* per session: position in the script run
    input_text,         \* per session: st.text_input value
    uploaded_file,      \* per session: st.file_uploader value
    image_id,           \* per session: local of the submit handler
    existing_response,  \* per session: local of the submit handler
    response,           \* per session: local of the submit handler
    displayed,          \* per session: text shown by st.write(response)
    msgs,               \* per session: status messages shown in this run
    readCalls,          \* per session: store reads made in this run
    genCalls,           \* per session: generation calls made in this run
    putCalls,           \* per session: store writes attempted in this run
    putCount,           \* per identifier: store writes attempted so far
    normalOp,           \* so far submissions ran one after another and every
                        \*   store read and write succeeded
    nsub,               \* submissions started so far
    origin,             \* per identifier: the identifier of the image for
                        \*   which the stored response was generated, None
                        \*   for what this program did not write
    servedFrom          \* per session: the same for the displayed response

vars == <<store, pc, input_text, uploaded_file, image_id, existing_response,
          response, displayed, msgs, readCalls, genCalls, putCalls, putCount,
          normalOp, nsub, origin, servedFrom>>

InFlight(s) == pc[s] \in {"lookup", "generate", "store"}

Init ==
    /\ \E v \in ForeignValues(SeededId) :
         store = [k \in Ids |-> IF k = SeededId THEN v ELSE PyNone]
    /\ pc = [s \in Sessions |-> "idle"]
    /\ input_text = [s \in Sessions |-> Str("")]
    /\ uploaded_file = [s \in Sessions |-> PyNone]
    /\ image_id = [s \in Sessions |-> PyNone]
    /\ existing_response = [s \in Sessions |-> PyNone]
    /\ response = [s \in Sessions |-> PyNone]
    /\ displayed = [s \in Sessions |-> PyNone]
    /\ msgs = [s \in Sessions |-> {}]
    /\ readCalls = [s \in Sessions |-> 0]
    /\ genCalls = [s \in Sessions |-> 0]
    /\ putCalls = [s \in Sessions |-> 0]
    /\ putCount = [k \in Ids |-> 0]
    /\ normalOp = TRUE
    /\ nsub = 0
    /\ origin = [k \in Ids |-> PyNone]
    /\ servedFrom = [s \in Sessions |-> PyNone]

\* ------------------------------------------------------ UI messages
WarnPrompt == "warning: Please enter an input prompt."
WarnImage == "warning: Please upload an image."
ErrImage == "error: Error processing image"
ErrEncode == "error: Error encoding image to binary"
ErrCheck == "error: Error checking Firebase for existing response"
InfoExists == "info: Response already exists. Fetching from Firebase."
InfoGenerating == "info: No existing response found. Generating a new one."
ErrGenerate == "error: Error generating response"
OkStored == "success: Response successfully stored in Firebase"
ErrStore == "error: Error storing response in Firebase"
ErrNoResponse == "error: No response generated. Check inputs and try again."
\* An exception no handler catches: Streamlit ends the run with a traceback.
Uncaught == "uncaught: AttributeError"

\* ------------------------------------------------------------ helpers
\* input_image_setup: the one-element payload list, or None after an error.
input_image_setup(f, readable) ==
    IF f.tag = "file" /\ readable
    THEN [tag |-> "list", mime_type |-> f.type, data |-> f.data]
    ELSE PyNone

\* Variant: the digest is taken of the MIME label instead of the content.
encode_image_binary_by_label(f, readable) ==
    IF readable
    THEN Sha256Hex(IF f.type = "image/png" THEN <<1, 2>> ELSE <<1, 3>>)
    ELSE PyNone

\* Variant: an unreadable upload is reported, yet a digest is returned.
encode_image_binary_reports_only(f, readable) == Sha256Hex(f.data)

\* encode_image_binary: the digest of the raw bytes, or None after an error.
encode_image_binary(f, readable) ==
    IF readable THEN Sha256Hex(f.data) ELSE PyNone

\* Variant: a failed read still hands back the stored value.
check_existing_stale(st, k, ok) == st[k]

\* Variant: the lookup never finds anything.
check_existing_never(st, k, ok) == PyNone

\* check_existing_response: the value at /responses/<k>, None after an error.
check_existing_response(st, k, ok) ==
    IF ok THEN st[k] ELSE PyNone

\* Variant: the lookup of the "response" child always falls back.
EntryGetDefault(e) == Str("No response found")

\* existing_response.get("response", "No response found") on a dict.
EntryGet(e) ==
    IF "response" \in DOMAIN e THEN e.response ELSE Str("No response found")

\* Variant: every response is written under one fixed key.
store_response_fixed_key(st, k, r, enc, ok) ==
    IF ok THEN [st EXCEPT ![SeededId] = Entry(r, enc)] ELSE st

\* Variant: response and encoding are stored in each other's place.
store_response_swapped(st, k, r, enc, ok) ==
    IF ok THEN [st EXCEPT ![k] = Entry(enc, r)] ELSE st

\* Variant: the write creates an entry but never replaces one.
store_response_if_absent(st, k, r, enc, ok) ==
    IF ok /\ st[k] = PyNone THEN [st EXCEPT ![k] = Entry(r, enc)] ELSE st

\* response_ref.set(...): a full-record overwrite; nothing changes on error.
store_response_in_firebase(st, k, r, enc, ok) ==
    IF ok THEN [st EXCEPT ![k] = Entry(r, enc)] ELSE st

\* What model.generate_content / response.text may do: return a text or raise.
ModelOutcomes ==
    { [ok |-> TRUE, text |-> t] : t \in Texts } \cup { [ok |-> FALSE, text |-> ""] }

\* Variant: a failed call is answered with a fallback text.
get_gemini_fallback(call) ==
    IF call.ok THEN Str(call.text) ELSE Str("r1")

\* get_gemini_response: response.text, or None after an error.
get_gemini_response(call) ==
    IF call.ok THEN Str(call.text) ELSE PyNone

\* Variant: the write-through is made whatever the call returned.
ShouldStoreAlways(r) == TRUE

\* Variant: the write-through is made for every text, the empty one included.
ShouldStoreAnyText(r) == r.tag = "str"

\* Line 166: only a non-empty generated text is written through.
ShouldStore(r) == Truthy(r)

\* Variant: nothing is shown once the write-through has failed.
PresentUnlessWriteFailed(s, r, m) ==
    /\ displayed' = [displayed EXCEPT ![s] =
                       IF Truthy(r) /\ ErrStore \notin m THEN r ELSE PyNone]
    /\ msgs' = [msgs EXCEPT ![s] = m]
    /\ pc' = [pc EXCEPT ![s] = "done"]

\* Variant: a missing generation result sends the run back to the call.
PresentOrRetry(s, r, m) ==
    /\ displayed' = [displayed EXCEPT ![s] = IF Truthy(r) THEN r ELSE PyNone]
    /\ msgs' = [msgs EXCEPT ![s] =
                  m \cup (IF Truthy(r) THEN {} ELSE {ErrNoResponse})]
    /\ pc' = [pc EXCEPT ![s] =
                IF ~Truthy(r) /\ pc[s] = "generate" THEN "generate" ELSE "done"]

\* Lines 170-174: show the response, or report that there is none.
Present(s, r, m) ==
    /\ displayed' = [displayed EXCEPT ![s] = IF Truthy(r) THEN r ELSE PyNone]
    /\ msgs' = [msgs EXCEPT ![s] =
                  m \cup (IF Truthy(r) THEN {} ELSE {ErrNoResponse})]
    /\ pc' = [pc EXCEPT ![s] = "done"]

\* Variant: the uploaded file is not checked.
ValidationPromptOnly(p, f) ==
    IF ~Truthy(p) THEN WarnPrompt ELSE "ok"

\* Lines 148-152: the warning that ends the run, or "ok" when both a
\* non-empty prompt and an uploaded file are present.
Validation(p, f) ==
    IF ~Truthy(p) THEN WarnPrompt
    ELSE IF ~Truthy(f) THEN WarnImage
    ELSE "ok"

\* uploaded_file.getvalue() is called by the payload setup and again by the
\* hasher; either call may raise, but only a validated submission makes them.
ReadFaults(p, f) ==
    IF Validation(p, f) = "ok" THEN {"none", "setup", "hash"} ELSE {"none"}

\* ------------------------------------------------------------ actions
\* Button press: a fresh script run; validation, payload setup and key
\* derivation (lines 147-157) are local and run without interruption.
Submit(s) ==
    /\ pc[s] \in {"idle", "done"}
    /\ nsub < MaxSubmissions
    /\ \E p \in Prompts, f \in FileInputs :
       \E fault \in ReadFaults(p, f) :
         LET image_data == input_image_setup(f, fault # "setup")
             id == IF Truthy(image_data) THEN encode_image_binary(f, fault # "hash")
                   ELSE PyNone
             valid == Validation(p, f) = "ok"
             go == valid /\ Truthy(image_data) /\ Truthy(id)
         IN /\ input_text' = [input_text EXCEPT ![s] = p]
            /\ uploaded_file' = [uploaded_file EXCEPT ![s] = f]
            /\ image_id' = [image_id EXCEPT ![s] = IF valid THEN id ELSE PyNone]
            /\ msgs' = [msgs EXCEPT ![s] =
                 IF ~valid THEN {Validation(p, f)}
                 ELSE IF fault = "setup" THEN {ErrImage}     \* line 74
                 ELSE IF fault = "hash" THEN {ErrEncode}     \* line 82
                 ELSE {}]
            /\ pc' = [pc EXCEPT ![s] = IF go THEN "lookup" ELSE "done"]
            /\ normalOp' = (normalOp /\ ~(go /\ \E t \in Sessions \ {s} : InFlight(t)))
    /\ existing_response' = [existing_response EXCEPT ![s] = PyNone]
    /\ response' = [response EXCEPT ![s] = PyNone]
    /\ displayed' = [displayed EXCEPT ![s] = PyNone]
    /\ readCalls' = [readCalls EXCEPT ![s] = 0]
    /\ genCalls' = [genCalls EXCEPT ![s] = 0]
    /\ putCalls' = [putCalls EXCEPT ![s] = 0]
    /\ nsub' = nsub + 1
    /\ servedFrom' = [servedFrom EXCEPT ![s] = PyNone]
    /\ UNCHANGED <<store, putCount, origin>>

\* Lines 159-164 (and 170-174 on a hit): the point read and the branch.
Lookup(s) ==
    /\ pc[s] = "lookup"
    /\ \E ok \in BOOLEAN :
         LET existing == check_existing_response(store, image_id[s], ok)
             m0 == IF ok THEN {} ELSE {ErrCheck}
         IN /\ existing_response' = [existing_response EXCEPT ![s] = existing]
            /\ readCalls' = [readCalls EXCEPT ![s] = @ + 1]
            /\ normalOp' = (normalOp /\ ok)
            /\ IF Truthy(existing)
               THEN IF existing.tag = "dict"
                    THEN /\ response' = [response EXCEPT ![s] = EntryGet(existing)]
                         /\ servedFrom' = [servedFrom EXCEPT ![s] =
                               IF ok /\ Truthy(EntryGet(existing))
                               THEN origin[image_id[s]] ELSE PyNone]
                         /\ Present(s, EntryGet(existing),
                                    m0 \cup {InfoExists})
                    ELSE \* .get on a value that is not a dict: AttributeError
                         /\ msgs' = [msgs EXCEPT ![s] =
                               m0 \cup {InfoExists, Uncaught}]
                         /\ pc' = [pc EXCEPT ![s] = "done"]
                         /\ UNCHANGED <<response, displayed, servedFrom>>
               ELSE /\ msgs' = [msgs EXCEPT ![s] =
                               m0 \cup {InfoGenerating}]
                    /\ pc' = [pc EXCEPT ![s] = "generate"]
                    /\ UNCHANGED <<response, displayed, servedFrom>>
    /\ UNCHANGED <<store, input_text, uploaded_file, image_id, genCalls,
                   putCalls, putCount, nsub, origin>>

\* Lines 165-166 (and 170-174 when nothing is to be stored).
Generate(s) ==
    /\ pc[s] = "generate"
    /\ \E call \in ModelOutcomes :
         LET r == get_gemini_response(call)
             m0 == msgs[s] \cup (IF call.ok THEN {} ELSE {ErrGenerate})
         IN /\ response' = [response EXCEPT ![s] = r]
            /\ genCalls' = [genCalls EXCEPT ![s] = @ + 1]
            /\ IF ShouldStore(r)
               THEN /\ msgs' = [msgs EXCEPT ![s] = m0]
                    /\ pc' = [pc EXCEPT ![s] = "store"]
                    /\ UNCHANGED displayed
               ELSE Present(s, r, m0)
    /\ UNCHANGED <<store, input_text, uploaded_file, image_id, existing_response,
                   readCalls, putCalls, putCount, normalOp, nsub, origin,
                   servedFrom>>

\* Lines 168-172: the write-through, then the response is shown.
Store(s) ==
    /\ pc[s] = "store"
    /\ \E ok \in BOOLEAN :
         LET k == image_id[s]
         IN /\ store' = store_response_in_firebase(store, k, response[s], k, ok)
            /\ putCalls' = [putCalls EXCEPT ![s] = @ + 1]
            /\ putCount' = [putCount EXCEPT ![k] = @ + 1]
            /\ origin' = [j \in Ids |->
                            IF store'[j] # store[j] THEN k ELSE origin[j]]
            /\ servedFrom' = [servedFrom EXCEPT ![s] =
                                IF Truthy(response[s]) THEN k ELSE PyNone]
            /\ normalOp' = (normalOp /\ ok)
            /\ Present(s, response[s],
                       msgs[s] \cup (IF ok THEN {OkStored}
                                     ELSE {ErrStore}))
    /\ UNCHANGED <<input_text, uploaded_file, image_id, existing_response,
                   response, readCalls, genCalls, nsub>>

Next == \E s \in Sessions : Submit(s) \/ Lookup(s) \/ Generate(s) \/ Store(s)

Spec == Init /\ [][Next]_vars

\* ------------------------------------------------------------- claims
ReadOk(s) == readCalls[s] = 1 /\ ErrCheck \notin msgs[s]
Finished(s) == pc[s] = "done"
\* The step in which session s ends its run.
Completes(s) == pc[s] # "done" /\ pc'[s] = "done"

\* C1 (as claimed): a finished submission whose store read succeeded and
\* returned an entry made no generation call and displays entry.response,
\* whatever value the store held at the identifier.
C1_CacheHitSkip ==
    \A s \in Sessions :
        (Finished(s) /\ ReadOk(s) /\ existing_response[s] # PyNone)
        => /\ genCalls[s] = 0
           /\ "response" \in DOMAIN existing_response[s]
           /\ displayed[s] = existing_response[s].response

SecondAfterFirst(s, t) ==
    /\ s # t
    /\ Finished(t) /\ OkStored \in msgs[t]
    /\ pc[s] = "lookup" /\ pc'[s] # "lookup"
    /\ image_id[s] = image_id[t]
    /\ input_text[s] = input_text[t]
SameAsFirst(s, t) ==
    /\ pc'[s] = "done"
    /\ InfoExists \in msgs'[s]
    /\ genCalls'[s] = 0
    /\ displayed'[s] = displayed[t]
C3_Idempotent ==
    [][\A s, t \in Sessions : SecondAfterFirst(s, t) => SameAsFirst(s, t)]_vars

\* C3 (amended): the same under normal operation, that is when submissions
\* run one after another and every store read and write succeeds.
C3_IdempotentNormalOp ==
    [][\A s, t \in Sessions :
         (SecondAfterFirst(s, t) /\ normalOp') => SameAsFirst(s, t)]_vars

C3_Witness ==
    \E s, t \in Sessions :
        /\ s # t /\ normalOp
        /\ Finished(t) /\ OkStored \in msgs[t]
        /\ Finished(s) /\ InfoExists \in msgs[s] /\ genCalls[s] = 0
        /\ image_id[s] = image_id[t] /\ input_text[s] = input_text[t]
        /\ displayed[s] = displayed[t] /\ displayed[s] = Str("r2")

\* C4: a submission with an empty prompt or without an uploaded image ends
\* in exactly one validation warning, with no store read, no generation call,
\* no store write and nothing displayed; starting a submission never changes
\* the store.
C4_Gated ==
    \A s \in Sessions :
        (pc[s] # "idle" /\ (input_text[s] = Str("") \/ uploaded_file[s] = PyNone))
        => /\ Finished(s)
           /\ msgs[s] = (IF input_text[s] = Str("") THEN {WarnPrompt} ELSE {WarnImage})
           /\ readCalls[s] = 0 /\ genCalls[s] = 0 /\ putCalls[s] = 0
           /\ displayed[s] = PyNone
C4_ValidationGating ==
    /\ []C4_Gated
    /\ [][nsub' # nsub => (store' = store /\ putCount' = putCount)]_vars

C4_Witness ==
    \E s, t \in Sessions :
        /\ Finished(s) /\ msgs[s] = {WarnImage} /\ input_text[s] = Str("p1")
        /\ Finished(t) /\ msgs[t] = {WarnPrompt} /\ uploaded_file[t] # PyNone
        /\ \A k \in Ids : putCount[k] = 0

C6_WriteFailureNotFatal ==
    [][\A s \in Sessions :
         (putCalls'[s] = putCalls[s] + 1 /\ ErrStore \in msgs'[s])
         => /\ store' = store
            /\ pc'[s] = "done"
            /\ Truthy(response[s])
            /\ displayed'[s] = response[s]
            /\ ErrNoResponse \notin msgs'[s]]_vars

C6_Witness ==
    \E s \in Sessions :
        /\ Finished(s) /\ ErrStore \in msgs[s] /\ genCalls[s] = 1
        /\ displayed[s] = Str("r1")
        /\ store[image_id[s]] = PyNone

\* C7: a submission whose generation call failed has finished, reports that
\* no response was generated, displays nothing, called generation once and
\* made no store write.
C7_GenerationFailureTerminal ==
    \A s \in Sessions :
        ErrGenerate \in msgs[s]
        => /\ Finished(s)
           /\ ErrNoResponse \in msgs[s]
           /\ displayed[s] = PyNone
           /\ genCalls[s] = 1
           /\ putCalls[s] = 0 /\ OkStored \notin msgs[s] /\ ErrStore \notin msgs[s]

C7_Witness ==
    \E s \in Sessions :
        /\ Finished(s) /\ ErrGenerate \in msgs[s] /\ ErrNoResponse \in msgs[s]
        /\ store[image_id[s]] = PyNone /\ putCount[image_id[s]] = 0

\* C8 (as claimed): an entry {response, encoding} that exists under an
\* identifier is never changed or removed by any later step.
C8_WriteOnce ==
    [][\A k \in Ids :
         (store[k].tag = "dict" /\ "response" \in DOMAIN store[k])
         => store'[k] = store[k]]_vars

\* C8 (amended): an existing entry is never removed, and under normal
\* operation (submissions one after another, every store read and write
\* succeeds) it is never changed.
C8_WriteOnceNormalOp ==
    [][\A k \in Ids :
         store[k] # PyNone
         => /\ store'[k] # PyNone
            /\ normalOp' => store'[k] = store[k]]_vars

C8_Witness ==
    \E s \in Sessions, k \in Ids :
        /\ normalOp /\ nsub = 2 /\ putCount[k] = 1
        /\ Finished(s) /\ InfoExists \in msgs[s] /\ image_id[s] = k
        /\ store[k] = Entry(Str("r1"), k)

\* C9: under normal operation the store write is invoked at most once per
\* identifier, however often the same image is submitted.
C9_PutAtMostOnce ==
    normalOp => \A k \in Ids : putCount[k] <= 1

C9_Witness ==
    \E k \in Ids :
        /\ normalOp /\ nsub = 3 /\ putCount[k] = 1
        /\ \A s \in Sessions :
             Finished(s) /\ InfoExists \in msgs[s] /\ image_id[s] = k

\* C10: nothing excludes overlapping submissions of one image; a successful
\* write replaces whatever entry the identifier holds by the writer's own
\* (last write wins), and a hit displays the response of the entry the store
\* holds at that moment.
C10_LastWriteWins ==
    [][\A s \in Sessions :
         LET k == image_id[s] IN
         /\ (putCalls'[s] = putCalls[s] + 1 /\ OkStored \in msgs'[s])
            => store' = [store EXCEPT ![k] = Entry(response[s], k)]
         /\ (pc[s] = "lookup" /\ InfoExists \in msgs'[s] /\ ErrCheck \notin msgs'[s]
               /\ store[k].tag = "dict" /\ "response" \in DOMAIN store[k]
               /\ Truthy(store[k].response))
            => displayed'[s] = store[k].response]_vars

\* Both sessions read a miss for the same identifier without any fault, both
\* generated and both wrote; the store holds the entry of one of them.
C10_Witness ==
    \E s, t \in Sessions :
        /\ s # t /\ image_id[s] = image_id[t]
        /\ \A u \in {s, t} :
             /\ Finished(u) /\ ErrCheck \notin msgs[u] /\ OkStored \in msgs[u]
             /\ existing_response[u] = PyNone /\ genCalls[u] = 1
        /\ response[s] # response[t]
        /\ putCount[image_id[s]] = 2
        /\ store[image_id[s]] = Entry(response[t], image_id[t])

\* C11 (as claimed): no submission ends in an uncaught fault, and a finished
\* submission that displays no response shows a warning or an error message,
\* whatever failed and whatever value the store read returned.
Surfaced(s) ==
    msgs[s] \cap {WarnPrompt, WarnImage, ErrImage, ErrEncode, ErrCheck,
                  ErrGenerate, ErrStore, ErrNoResponse} # {}
C11_ErrorContainment ==
    \A s \in Sessions :
        /\ Uncaught \notin msgs[s]
        /\ (Finished(s) /\ displayed[s] = PyNone) => Surfaced(s)

\* C12: the identifier a submission uses is a function of the image's bytes
\* alone: two submissions, in whichever sessions, whose uploads have the same
\* bytes hold the same identifier whatever the file names, MIME labels and
\* prompts are.
C12_KeyDeterminism ==
    \A s, t \in Sessions :
        (image_id[s] # PyNone /\ image_id[t] # PyNone)
        => (uploaded_file[s].data = uploaded_file[t].data
              => image_id[s] = image_id[t])

C12_Witness ==
    \E s, t \in Sessions :
        /\ image_id[s] # PyNone /\ image_id[s] = image_id[t]
        /\ uploaded_file[s].data = uploaded_file[t].data
        /\ uploaded_file[s].name # uploaded_file[t].name
        /\ uploaded_file[s].type # uploaded_file[t].type
        /\ input_text[s] # input_text[t]
        /\ store[image_id[s]] = Entry(response[s], image_id[s])
        /\ Finished(s) /\ OkStored \in msgs[s]
        /\ Finished(t) /\ InfoExists \in msgs[t] /\ displayed[t] = response[s]

\* C13: a submission whose key derivation failed reports the failure and has
\* ended: it made no store read, no generation call and no store write, and
\* displays nothing.
C13_HashFailureTerminal ==
    \A s \in Sessions :
        ErrEncode \in msgs[s]
        => /\ Finished(s)
           /\ msgs[s] = {ErrEncode}
           /\ image_id[s] = PyNone
           /\ readCalls[s] = 0 /\ genCalls[s] = 0 /\ putCalls[s] = 0
           /\ displayed[s] = PyNone

C13_Witness ==
    \E s \in Sessions :
        /\ Finished(s) /\ msgs[s] = {ErrEncode}
        /\ Truthy(input_text[s]) /\ Truthy(uploaded_file[s])
        /\ readCalls[s] = 0
        /\ \A k \in Ids : store[k] = PyNone /\ putCount[k] = 0

\* C14: a submission is one linear pass.  It reads the store at most once,
\* calls generation at most once and writes at most once, in that order and
\* before anything is displayed; it writes only after its own generation
\* call returned a text; and it terminates: while in flight it always has a
\* next step, and every step moves it strictly forward, so that it has ended
\* after at most three steps.
Rank(p) ==
    CASE p = "lookup" -> 1 [] p = "generate" -> 2 [] p = "store" -> 3
      [] OTHER -> 4
C14_Counts ==
    \A s \in Sessions :
        /\ readCalls[s] <= 1 /\ genCalls[s] <= 1 /\ putCalls[s] <= 1
        /\ genCalls[s] = 1 => readCalls[s] = 1
        /\ putCalls[s] = 1
           => /\ genCalls[s] = 1
              /\ ErrGenerate \notin msgs[s]
              /\ response[s].tag = "str"
        /\ displayed[s] # PyNone => (Finished(s) /\ readCalls[s] = 1)
        /\ InFlight(s) => ENABLED (Lookup(s) \/ Generate(s) \/ Store(s))
C14_Order ==
    \A s \in Sessions :
        /\ readCalls'[s] = readCalls[s] + 1
           => genCalls[s] = 0 /\ putCalls[s] = 0 /\ displayed[s] = PyNone
        /\ genCalls'[s] = genCalls[s] + 1
           => readCalls[s] = 1 /\ putCalls[s] = 0 /\ displayed[s] = PyNone
        /\ putCalls'[s] = putCalls[s] + 1
           => genCalls[s] = 1 /\ displayed[s] = PyNone
        /\ (InFlight(s) /\ <<pc[s], readCalls[s], genCalls[s], putCalls[s]>>
                             # <<pc'[s], readCalls'[s], genCalls'[s], putCalls'[s]>>)
           => Rank(pc'[s]) > Rank(pc[s])
C14_LinearPass ==
    /\ []C14_Counts
    /\ [][C14_Order]_vars

C14_Witness ==
    \E s, t \in Sessions :
        /\ Finished(s) /\ readCalls[s] = 1 /\ genCalls[s] = 1 /\ putCalls[s] = 1
        /\ displayed[s] = response[s] /\ Truthy(displayed[s])
        /\ Finished(t) /\ readCalls[t] = 1 /\ genCalls[t] = 0 /\ putCalls[t] = 0
        /\ Truthy(displayed[t])

\* C15: a submission that ended in a validation warning, a key-derivation
\* failure, a cache hit or a generation failure made no store write, and no
\* step other than a store write changes the contents of the store.
ReadOnlyOutcome(s) ==
    msgs[s] \cap {WarnPrompt, WarnImage, ErrEncode, InfoExists, ErrGenerate} # {}
C15_NoWrite ==
    \A s \in Sessions :
        (Finished(s) /\ ReadOnlyOutcome(s))
        => /\ putCalls[s] = 0
           /\ OkStored \notin msgs[s] /\ ErrStore \notin msgs[s]
C15_ReadOnlyOutcomes ==
    /\ []C15_NoWrite
    /\ [][(\A s \in Sessions : putCalls'[s] # putCalls[s] + 1)
            => store' = store]_vars

C15_Witness ==
    \E s, t \in Sessions :
        /\ Finished(s) /\ InfoExists \in msgs[s] /\ displayed[s] = Str("r0")
        /\ Finished(t) /\ ErrGenerate \in msgs[t] /\ image_id[t] = image_id[s]
        /\ ErrCheck \in msgs[t]
        /\ store[image_id[s]] = Entry(Str("r0"), image_id[s])
        /\ \A k \in Ids : putCount[k] = 0

\* C16: every entry this program wrote sits under the identifier of the image
\* its response was generated for and records that identifier as its
\* encoding, and the response a submission displays was never generated for
\* an image with another identifier, also when submissions for different
\* images interleave.
C16_EntriesBelongToKey ==
    /\ \A k \in Ids :
         origin[k] # PyNone
         => /\ origin[k] = k
            /\ store[k].tag = "dict"
            /\ "response" \in DOMAIN store[k]
            /\ store[k].encoding = k
    /\ \A s \in Sessions :
         servedFrom[s] # PyNone
         => /\ servedFrom[s] = image_id[s]
            /\ displayed[s] # PyNone

\* Two overlapping submissions for different images, each of which wrote its
\* own entry.
C16_Witness ==
    \E s, t \in Sessions :
        /\ nsub = 2 /\ ~normalOp
        /\ image_id[s] # image_id[t]
        /\ \A u \in {s, t} :
             /\ Finished(u) /\ OkStored \in msgs[u] /\ ErrCheck \notin msgs[u]
             /\ store[image_id[u]] = Entry(response[u], image_id[u])
             /\ origin[image_id[u]] = image_id[u]
             /\ servedFrom[u] = image_id[u]
        /\ response[s] # response[t]

\* C17: the store write is invoked only with a non-empty generated text, so
\* every entry this program wrote has a non-empty response; a generation call
\* that returned the empty text ends the submission like a failed call:
\* nothing is stored, nothing is displayed and it is reported that no
\* response was generated.
C17_NeverStoresEmpty ==
    /\ \A s \in Sessions :
         /\ putCalls[s] >= 1
            => (response[s].tag = "str" /\ response[s].val # "")
         /\ (Finished(s) /\ genCalls[s] = 1 /\ response[s] = Str(""))
            => /\ putCalls[s] = 0
               /\ displayed[s] = PyNone
               /\ ErrNoResponse \in msgs[s]
               /\ OkStored \notin msgs[s]
    /\ \A k \in Ids :
         origin[k] # PyNone
         => (store[k].response.tag = "str" /\ store[k].response.val # "")

C17_Witness ==
    \E s \in Sessions :
        /\ Finished(s) /\ genCalls[s] = 1 /\ response[s] = Str("")
        /\ ErrGenerate \notin msgs[s] /\ ErrNoResponse \in msgs[s]
        /\ putCount[image_id[s]] = 0 /\ store[image_id[s]] = PyNone

\* C18 (as claimed): once a submission has stored an entry for an image, the
\* lookup of a later submission of the same image under a different
\* non-empty prompt is a hit: it makes no generation call and displays the
\* response that was generated for the earlier prompt.
LaterOtherPrompt(s, t) ==
    /\ s # t
    /\ Finished(t) /\ OkStored \in msgs[t]
    /\ pc[s] = "lookup" /\ pc'[s] # "lookup"
    /\ image_id[s] = image_id[t]
    /\ input_text[s] # input_text[t]
C18_PromptIndependent ==
    [][\A s, t \in Sessions : LaterOtherPrompt(s, t) => SameAsFirst(s, t)]_vars

\* C18 (amended): the same under normal operation, that is when submissions
\* run one after another and every store read and write succeeds.
C18_PromptIndependentNormalOp ==
    [][\A s, t \in Sessions :
         (LaterOtherPrompt(s, t) /\ normalOp') => SameAsFirst(s, t)]_vars

C18_Witness ==
    \E s, t \in Sessions :
        /\ s # t /\ normalOp
        /\ Finished(t) /\ OkStored \in msgs[t] /\ input_text[t] = Str("p1")
        /\ Finished(s) /\ InfoExists \in msgs[s] /\ input_text[s] = Str("p2")
        /\ image_id[s] = image_id[t] /\ genCalls[s] = 0
        /\ displayed[s] = displayed[t] /\ displayed[t] = response[t]
        /\ servedFrom[s] = image_id[t]
====
